---- MODULE Spec2Model ----
(***************************************************************************)
(* Cytomind web tier: the upload route (POST /api/upload), the job status  *)
(* route (GET /api/jobs/{jobId}/status) and the report route               *)
(* (GET /api/reports/{jobId}), over the Job and Patient collections, with  *)
(* the inference service as the environment; and the browser's upload      *)
(* component (ImageUpload), which stages the files of an upload.           *)
(*                                                                         *)
(* A handler is cut into steps at its awaits on the stores and on the      *)
(* inference service.  Code between two such awaits touches only the       *)
(* handler's locals, so it is folded into the step that ends at the next   *)
(* store or service operation.                                             *)
(***************************************************************************)
EXTENDS Integers, Sequences, FiniteSets, TLC

\* ------------------------------------------------------------------ bounds
\* Number of uploads that get past validation (each draws one job id).
MaxJobs == 2
\* Largest number of parts named 'images' in one upload.
MaxImages == 1
\* Largest number of files in one selection of the file input.
MaxSelect == 2
\* Largest number of files staged, and of previews shown or being decoded.
MaxStaged == 2
\* Largest number of selections whose previews are still being decoded.
MaxPending == 2

\* ------------------------------------------------------------ value domains
\* JavaScript null / undefined / absent field.
Null == "null"

Users == {"labA", "labB"}

\* The Authorization header: absent, a token that does not verify, or a token
\* issued to one of the users.
Credentials == {Null, "bad", "tokA", "tokB"}

\* The patientId form field: absent, empty, or a key.
PatientIdInputs == {Null, "", "P1", "P2"}

\* The name and age form fields of one upload.
Profiles ==
  { [name |-> "Jane", age |-> "34"],
    [name |-> Null, age |-> Null] }

\* Error text of a rejected fetch (the connection failed or was lost).
FetchFailed == "fetch failed"

\* The detail field of a non-2xx answer of the analyze endpoint (Null: none).
Details == {"Model not loaded", Null}

JobIds == 1 .. MaxJobs

\* Job.result: absent, the classification payload, or an error description.
NoResult == [kind |-> "none", error |-> Null, classification |-> Null]
ErrorResult(msg) == [kind |-> "error", error |-> msg, classification |-> Null]
Payload == [kind |-> "payload", error |-> Null, classification |-> "MALIGNANT"]

\* JavaScript truthiness of a form value.
Falsy(x) == x \in {Null, ""}

VARIABLES
  jobs,       \* the Job collection
  patients,   \* the Patient collection
  uploads,    \* the handlers of POST /api/upload past validation, by job id
  mlJobs,     \* the job ids the inference service accepted
  statusReq,  \* a status handler between its two reads
  reportReq,  \* a report handler waiting for the PDF
  files,      \* ImageUpload: the staged files
  previews,   \* ImageUpload: the previews shown
  error,      \* ImageUpload: the error shown
  uploading,  \* ImageUpload: the uploading flag
  uploadCall, \* ImageUpload: api.uploadImages is in flight
  readers     \* ImageUpload: the selections with a FileReader still reading

\* The state of the routes and the state of the component.
server == <<jobs, patients, uploads, mlJobs, statusReq, reportReq>>
ui == <<files, previews, error, uploading, uploadCall, readers>>

vars == <<jobs, patients, uploads, mlJobs, statusReq, reportReq,
          files, previews, error, uploading, uploadCall, readers>>

\* ------------------------------------------------------------ credentials
\* verifyToken(request): {error} for an absent or invalid bearer credential,
\* {user: {userId}} for a valid one.
verifyToken(cred) ==
  CASE cred = "tokA" -> [error |-> Null, userId |-> "labA"]
    [] cred = "tokB" -> [error |-> Null, userId |-> "labB"]
    [] cred = Null   -> [error |-> "No token provided", userId |-> Null]
    [] OTHER         -> [error |-> "Invalid token", userId |-> Null]

\* ------------------------------------------------------------- collections
\* A collection is the sequence of its documents in insertion order; a query
\* answers with the first document that matches.
FirstIndex(coll, Match(_)) ==
  IF \E i \in 1 .. Len(coll) : Match(coll[i])
  THEN CHOOSE i \in 1 .. Len(coll) :
         Match(coll[i]) /\ \A j \in 1 .. (i - 1) : ~Match(coll[j])
  ELSE 0

\* Mutant of PatientUpsert: an update that leaves the stored age as it was.
PatientUpsertKeepsAge(coll, patientId, name, age, labId) ==
  LET i == FirstIndex(coll, LAMBDA p : p.patientId = patientId)
      doc == [patientId |-> patientId, name |-> name, age |-> age,
              labId |-> labId]
  IN  IF i = 0
      THEN Append(coll, doc)
      ELSE [coll EXCEPT ![i].patientId = patientId, ![i].name = name,
                        ![i].labId = labId]

\* Patient.findOneAndUpdate({patientId}, {patientId, name, age, labId},
\*                          {upsert: true, new: true})
PatientUpsert(coll, patientId, name, age, labId) ==
  LET i == FirstIndex(coll, LAMBDA p : p.patientId = patientId)
      doc == [patientId |-> patientId, name |-> name, age |-> age,
              labId |-> labId]
  IN  IF i = 0
      THEN Append(coll, doc)
      ELSE [coll EXCEPT ![i].patientId = patientId, ![i].name = name,
                        ![i].age = age, ![i].labId = labId]

\* Patient.findOne({patientId}): the document in a set, or the empty set.
PatientFindOne(coll, patientId) ==
  LET i == FirstIndex(coll, LAMBDA p : p.patientId = patientId)
  IN  IF i = 0 THEN {} ELSE {coll[i]}

\* Job.create({jobId, patientId, labId, status: 'PENDING', progress: 0,
\*             totalImages})
JobCreate(coll, jobId, patientId, labId, totalImages) ==
  Append(coll, [jobId |-> jobId, patientId |-> patientId, labId |-> labId,
                status |-> "PENDING", progress |-> 0,
                totalImages |-> totalImages, result |-> NoResult])

\* Mutant of JobFindOne: the query leaves out labId.
JobFindOneAnyOwner(coll, jobId, labId) ==
  LET i == FirstIndex(coll, LAMBDA d : d.jobId = jobId)
  IN  IF i = 0 THEN {} ELSE {coll[i]}

\* Job.findOne({jobId, labId}): the document in a set, or the empty set.
JobFindOne(coll, jobId, labId) ==
  LET i == FirstIndex(coll, LAMBDA d : d.jobId = jobId /\ d.labId = labId)
  IN  IF i = 0 THEN {} ELSE {coll[i]}

\* Mutant of JobMarkFailed: the update records the generic text of the answer.
JobMarkFailedGeneric(coll, jobId, message) ==
  LET i == FirstIndex(coll, LAMBDA d : d.jobId = jobId)
  IN  IF i = 0
      THEN coll
      ELSE [coll EXCEPT ![i].status = "FAILED",
                        ![i].result = ErrorResult("Failed to start ML processing")]

\* Mutant of JobMarkFailed: the filter does not name the job, so the first
\* document of the collection is updated.
JobMarkFailedUnfiltered(coll, jobId, message) ==
  LET i == FirstIndex(coll, LAMBDA d : TRUE)
  IN  IF i = 0
      THEN coll
      ELSE [coll EXCEPT ![i].status = "FAILED",
                        ![i].result = ErrorResult(message)]

\* Job.findOneAndUpdate({jobId}, {status: 'FAILED', result: {error}})
JobMarkFailed(coll, jobId, message) ==
  LET i == FirstIndex(coll, LAMBDA d : d.jobId = jobId)
  IN  IF i = 0
      THEN coll
      ELSE [coll EXCEPT ![i].status = "FAILED",
                        ![i].result = ErrorResult(message)]

\* --------------------------------------------------------------- responses
\* What a handler answers.  A field the body does not carry is Null, 0 or {}.
NoBody ==
  [http |-> 0, message |-> Null, error |-> Null, jobId |-> 0, status |-> Null,
   progress |-> 0, totalImages |-> 0, report |-> {}, body |-> <<>>,
   disposition |-> <<>>]

\* NextResponse.json({message}, {status})
JsonMessage(http, message) == [NoBody EXCEPT !.http = http, !.message = message]

\* ------------------------------------------------------------ upload route
\* One handler of POST /api/upload past validation; uploads[k] is the handler
\* that drew job id k.  Its position is "create", "forward", "await", "catch",
\* and at the end "ok" (it answered 200) or "failed" (it answered 500).
\* name and age are kept until the job is created.
IdleUpload ==
  [pc |-> "idle", user |-> Null, patientId |-> Null, name |-> Null,
   age |-> Null, total |-> 0, err |-> Null]

\* Every request the route may receive.
UploadRequests ==
  [cred : Credentials, images : 0 .. MaxImages, image : BOOLEAN,
   patientId : PatientIdInputs, profile : Profiles]

\* The requests sent in the behaviours explored.  A request with a bad
\* credential or a bad form is answered without a change of state whatever
\* its other fields are, so one request stands for each such class.  The two
\* users, and the two patient keys, are interchangeable, so the first upload
\* is taken to be labA's for P1.
SentRequests ==
  { req \in UploadRequests :
      /\ req.cred \in {Null, "bad"} =>
            req.images = 0 /\ ~req.image /\ req.patientId = Null
      /\ (req.cred \in {Null, "bad"} \/ req.patientId \in {Null, ""}
            \/ (req.images = 0 /\ ~req.image)) => req.profile.name = Null
      /\ (\A k \in JobIds : uploads[k].pc = "idle") =>
            req.cred # "tokB" /\ req.patientId # "P2" }

\* Mutant of AllImages: the legacy part is counted on top of the others.
AllImagesBoth(images, image) == images + (IF image THEN 1 ELSE 0)

\* allImages.length: the 'images' parts, else the single 'image' part.
AllImages(images, image) ==
  IF images > 0 THEN images ELSE IF image THEN 1 ELSE 0

\* Mutant of InvalidUpload: rejects only when both are missing.
InvalidUploadBoth(images, image, patientId) ==
  AllImages(images, image) = 0 /\ Falsy(patientId)

\* The check that answers 400.
InvalidUpload(images, image, patientId) ==
  AllImages(images, image) = 0 \/ Falsy(patientId)

\* randomUUID(): an id no other upload has drawn.
randomUUID == Cardinality({k \in JobIds : uploads[k].pc # "idle"}) + 1

\* POST up to the Patient upsert: credential check, validation, job id,
\* Patient.findOneAndUpdate.  The outcome of the step for a request: the
\* answer (http 0: the handler goes on), the operations made, the stores and
\* the handlers after it.
PostStart(req) ==
  LET auth == verifyToken(req.cred)
      same == [body |-> NoBody, ops |-> <<>>, jobs |-> jobs,
               patients |-> patients, uploads |-> uploads]
  IN  IF auth.error # Null
      THEN [same EXCEPT !.body = JsonMessage(401, auth.error)]
      ELSE IF InvalidUpload(req.images, req.image, req.patientId)
      THEN [same EXCEPT !.body = JsonMessage(400,
                          "At least one image and patient ID are required")]
      ELSE [same EXCEPT
              !.ops = <<"Patient.findOneAndUpdate">>,
              !.patients = PatientUpsert(patients, req.patientId,
                             req.profile.name, req.profile.age, auth.userId),
              !.uploads = [uploads EXCEPT ![randomUUID] =
                             [pc |-> "create", user |-> auth.userId,
                              patientId |-> req.patientId,
                              name |-> req.profile.name,
                              age |-> req.profile.age,
                              total |-> AllImages(req.images, req.image),
                              err |-> Null]]]

UploadPOST(req) ==
  LET out == PostStart(req) IN
  /\ \/ randomUUID \in JobIds
     \/ verifyToken(req.cred).error # Null
     \/ InvalidUpload(req.images, req.image, req.patientId)
  /\ jobs' = out.jobs
  /\ patients' = out.patients
  /\ uploads' = out.uploads
  /\ UNCHANGED <<mlJobs, statusReq, reportReq, ui>>

\* await Job.create(...)
UploadCreateJob(k) ==
  /\ uploads[k].pc = "create"
  /\ jobs' = JobCreate(jobs, k, uploads[k].patientId, uploads[k].user,
                       uploads[k].total)
  /\ uploads' = [uploads EXCEPT ![k].pc = "forward", ![k].name = Null,
                                ![k].age = Null]
  /\ UNCHANGED <<patients, mlJobs, statusReq, reportReq, ui>>

\* new Error(errorData.detail || 'ML backend error')
BackendError(detail) == IF Falsy(detail) THEN "ML backend error" ELSE detail

\* fetch(ML_BACKEND_URL/api/analyze), the request leg: the connection fails,
\* or the service answers non-2xx, or the service accepts the job and its
\* answer is on the way.
UploadForward(k) ==
  /\ uploads[k].pc = "forward"
  /\ \/ /\ uploads' = [uploads EXCEPT ![k].pc = "catch",
                                      ![k].err = FetchFailed]
        /\ UNCHANGED mlJobs
     \/ /\ \E detail \in Details :
             uploads' = [uploads EXCEPT ![k].pc = "catch",
                                        ![k].err = BackendError(detail)]
        /\ UNCHANGED mlJobs
     \/ /\ uploads' = [uploads EXCEPT ![k].pc = "await"]
        /\ mlJobs' = mlJobs \cup {k}
  /\ UNCHANGED <<jobs, patients, statusReq, reportReq, ui>>

\* The 200 answer of POST: {jobId, status: 'PENDING', totalImages, message}.
UploadOk(k) ==
  [NoBody EXCEPT !.http = 200, !.jobId = k, !.status = "PENDING",
                 !.totalImages = uploads[k].total,
                 !.message = "image(s) uploaded, ML processing started"]

\* fetch, the answer leg, for a job the service accepted: the 2xx answer
\* arrives and POST returns UploadOk, or the connection is lost and fetch
\* rejects.
UploadResponse(k) ==
  /\ uploads[k].pc = "await"
  /\ \/ uploads' = [uploads EXCEPT ![k].pc = "ok"]
     \/ uploads' = [uploads EXCEPT ![k].pc = "catch", ![k].err = FetchFailed]
  /\ UNCHANGED <<jobs, patients, mlJobs, statusReq, reportReq, ui>>

\* The 500 answer of POST:
\* {message: 'Failed to start ML processing', error: error.message}.
UploadFailed(k) ==
  [NoBody EXCEPT !.http = 500, !.message = "Failed to start ML processing",
                 !.error = uploads[k].err]

\* catch (error): Job.findOneAndUpdate(... FAILED ...), then POST returns
\* UploadFailed.
UploadCatch(k) ==
  /\ uploads[k].pc = "catch"
  /\ jobs' = JobMarkFailed(jobs, k, uploads[k].err)
  /\ uploads' = [uploads EXCEPT ![k].pc = "failed"]
  /\ UNCHANGED <<patients, mlJobs, statusReq, reportReq, ui>>

\* ------------------------------------------------------- inference service
\* The service's own updates of a job it accepted, one document at a time,
\* along PENDING -> PROCESSING -> COMPLETED | FAILED.
JobIndex(jobId) == FirstIndex(jobs, LAMBDA d : d.jobId = jobId)

MLStart(k) ==
  /\ k \in mlJobs
  /\ JobIndex(k) # 0
  /\ jobs[JobIndex(k)].status = "PENDING"
  /\ jobs' = [jobs EXCEPT ![JobIndex(k)].status = "PROCESSING"]
  /\ UNCHANGED <<patients, uploads, mlJobs, statusReq, reportReq, ui>>

MLComplete(k) ==
  /\ k \in mlJobs
  /\ JobIndex(k) # 0
  /\ jobs[JobIndex(k)].status = "PROCESSING"
  /\ jobs' = [jobs EXCEPT ![JobIndex(k)].status = "COMPLETED",
                          ![JobIndex(k)].progress = 100,
                          ![JobIndex(k)].result = Payload]
  /\ UNCHANGED <<patients, uploads, mlJobs, statusReq, reportReq, ui>>

MLFail(k) ==
  /\ k \in mlJobs
  /\ JobIndex(k) # 0
  /\ jobs[JobIndex(k)].status = "PROCESSING"
  /\ jobs' = [jobs EXCEPT ![JobIndex(k)].status = "FAILED",
                          ![JobIndex(k)].result = ErrorResult("Inference failed")]
  /\ UNCHANGED <<patients, uploads, mlJobs, statusReq, reportReq, ui>>

\* The PDF the service holds for a job, and the answers of
\* GET /api/reports/{jobId}/pdf: the PDF, a non-2xx answer, no answer.
PdfOf(jobId) == <<"%PDF", jobId>>
PdfOutcomes == {"ok", "error", "unreachable"}

\* ------------------------------------------------------------ status route
\* Job ids a caller may ask for: 0 is an id no job ever has.
AskedIds == 0 .. MaxJobs

\* response.report
ReportView(job, patient) ==
  [jobId |-> job.jobId, patientId |-> job.patientId,
   patientName |-> IF patient = {} \/ \A p \in patient : Falsy(p.name)
                   THEN "N/A" ELSE (CHOOSE p \in patient : TRUE).name,
   age |-> IF patient = {} \/ \A p \in patient : Falsy(p.age)
           THEN "N/A" ELSE (CHOOSE p \in patient : TRUE).age,
   classification |-> job.result.classification]

\* Mutant of StatusBody: the error message of a FAILED job is left out.
StatusBodyNoMessage(job, report) ==
  [NoBody EXCEPT
     !.http = 200, !.jobId = job.jobId, !.status = job.status,
     !.progress = job.progress, !.report = report]

\* The 200 answer of the status route for the job read, with the report (a
\* set: empty when the body carries none).
StatusBody(job, report) ==
  [NoBody EXCEPT
     !.http = 200, !.jobId = job.jobId, !.status = job.status,
     !.progress = job.progress, !.report = report,
     !.message = IF job.status = "FAILED" /\ ~Falsy(job.result.error)
                 THEN job.result.error ELSE Null]

\* GET up to the answer or to the Patient read: credential check,
\* Job.findOne({jobId, labId}), the body.  wait holds the job read when the
\* handler goes on to read the patient.
StatusStart(cred, jobId) ==
  LET auth == verifyToken(cred)
      found == JobFindOne(jobs, jobId, auth.userId)
  IN  IF auth.error # Null
      THEN [body |-> JsonMessage(401, auth.error), ops |-> <<>>, wait |-> {}]
      ELSE IF found = {}
      THEN [body |-> JsonMessage(404, "Job not found or access denied"),
            ops |-> <<"Job.findOne">>, wait |-> {}]
      ELSE IF \E job \in found : job.status = "COMPLETED" /\ job.result.kind # "none"
      THEN [body |-> NoBody, ops |-> <<"Job.findOne">>, wait |-> found]
      ELSE [body |-> StatusBody(CHOOSE job \in found : TRUE, {}),
            ops |-> <<"Job.findOne">>, wait |-> {}]

\* Mutant of StatusGET: a poll of a PENDING job moves its progress.
StatusGETTouchesJob(cred, jobId) ==
  LET out == StatusStart(cred, jobId) IN
  /\ out.wait # {} => statusReq = {}
  /\ statusReq' = IF out.wait # {} THEN out.wait ELSE statusReq
  /\ jobs' = IF out.body.http = 200 /\ out.body.status = "PENDING"
             THEN [jobs EXCEPT ![JobIndex(jobId)].progress = 1]
             ELSE jobs
  /\ UNCHANGED <<patients, uploads, mlJobs, reportReq, ui>>

StatusGET(cred, jobId) ==
  LET out == StatusStart(cred, jobId) IN
  /\ out.wait # {} => statusReq = {}
  /\ statusReq' = IF out.wait # {} THEN out.wait ELSE statusReq
  /\ UNCHANGED <<jobs, patients, uploads, mlJobs, reportReq, ui>>

\* Patient.findOne({patientId: job.patientId}) and the answer with the report.
StatusFinish(job) ==
  StatusBody(job, {ReportView(job, PatientFindOne(patients, job.patientId))})

StatusPatient ==
  /\ statusReq # {}
  /\ statusReq' = {}
  /\ UNCHANGED <<jobs, patients, uploads, mlJobs, reportReq, ui>>

\* ------------------------------------------------------------ report route
\* Mutant of ReportStart: the job is looked up before the credential check.
ReportStartLookupFirst(cred, jobId) ==
  LET auth == verifyToken(cred)
      found == JobFindOne(jobs, jobId, auth.userId)
  IN  IF found = {}
      THEN [body |-> JsonMessage(404, "Report not found or access denied"),
            ops |-> <<"Job.findOne">>, wait |-> {}]
      ELSE IF auth.error # Null
      THEN [body |-> JsonMessage(401, auth.error), ops |-> <<"Job.findOne">>,
            wait |-> {}]
      ELSE IF \E job \in found : job.status # "COMPLETED"
      THEN [body |-> JsonMessage(400, "Report not ready yet"),
            ops |-> <<"Job.findOne">>, wait |-> {}]
      ELSE [body |-> NoBody, ops |-> <<"Job.findOne">>, wait |-> {jobId}]

\* Mutant of ReportStart: the COMPLETED check comes before the ownership
\* check.
ReportStartStatusFirst(cred, jobId) ==
  LET auth == verifyToken(cred)
      found == JobFindOneAnyOwner(jobs, jobId, auth.userId)
  IN  IF auth.error # Null
      THEN [body |-> JsonMessage(401, auth.error), ops |-> <<>>, wait |-> {}]
      ELSE IF found = {}
      THEN [body |-> JsonMessage(404, "Report not found or access denied"),
            ops |-> <<"Job.findOne">>, wait |-> {}]
      ELSE IF \E job \in found : job.status # "COMPLETED"
      THEN [body |-> JsonMessage(400, "Report not ready yet"),
            ops |-> <<"Job.findOne">>, wait |-> {}]
      ELSE IF \E job \in found : job.labId # auth.userId
      THEN [body |-> JsonMessage(404, "Report not found or access denied"),
            ops |-> <<"Job.findOne">>, wait |-> {}]
      ELSE [body |-> NoBody, ops |-> <<"Job.findOne">>, wait |-> {jobId}]

\* GET up to the answer or to the fetch of the PDF: credential check,
\* Job.findOne({jobId, labId}), the COMPLETED check.  wait holds the job id
\* when the handler goes on to fetch.
ReportStart(cred, jobId) ==
  LET auth == verifyToken(cred)
      found == JobFindOne(jobs, jobId, auth.userId)
  IN  IF auth.error # Null
      THEN [body |-> JsonMessage(401, auth.error), ops |-> <<>>, wait |-> {}]
      ELSE IF found = {}
      THEN [body |-> JsonMessage(404, "Report not found or access denied"),
            ops |-> <<"Job.findOne">>, wait |-> {}]
      ELSE IF \E job \in found : job.status # "COMPLETED"
      THEN [body |-> JsonMessage(400, "Report not ready yet"),
            ops |-> <<"Job.findOne">>, wait |-> {}]
      ELSE [body |-> NoBody, ops |-> <<"Job.findOne">>, wait |-> {jobId}]

ReportGET(cred, jobId) ==
  LET out == ReportStart(cred, jobId) IN
  /\ out.wait # {} => reportReq = {}
  /\ reportReq' = IF out.wait # {} THEN out.wait ELSE reportReq
  /\ UNCHANGED <<jobs, patients, uploads, mlJobs, statusReq, ui>>

\* Mutant of ReportFetched: the file name leaves out the job id.
ReportFetchedFixedName(jobId, outcome) ==
  IF outcome = "ok"
  THEN [NoBody EXCEPT
          !.http = 200, !.body = PdfOf(jobId),
          !.disposition = <<"attachment; filename=cytomind_report_", 0, ".pdf">>]
  ELSE JsonMessage(500, "Failed to download report")

\* fetch(ML_BACKEND_URL/api/reports/{jobId}/pdf) and the answer: the bytes as
\* an attachment, or 500.
ReportFetched(jobId, outcome) ==
  IF outcome = "ok"
  THEN [NoBody EXCEPT
          !.http = 200, !.body = PdfOf(jobId),
          !.disposition = <<"attachment; filename=cytomind_report_", jobId, ".pdf">>]
  ELSE JsonMessage(500, "Failed to download report")

\* Mutant of ReportFetch: a failed fetch is recorded on the job.
ReportFetchPersistsFailure(outcome) ==
  /\ reportReq # {}
  /\ reportReq' = {}
  /\ jobs' = IF outcome = "ok" THEN jobs
             ELSE JobMarkFailed(jobs, CHOOSE jobId \in reportReq : TRUE,
                                "Failed to download report")
  /\ UNCHANGED <<patients, uploads, mlJobs, statusReq, ui>>

ReportFetch(outcome) ==
  /\ reportReq # {}
  /\ reportReq' = {}
  /\ UNCHANGED <<jobs, patients, uploads, mlJobs, statusReq, ui>>

\* -------------------------------------------------------- upload component
\* ImageUpload: the file input (handleFileChange), the remove button of each
\* preview (removeFile), the clear-all button and the upload button
\* (handleUpload).  A handler runs to its end in one step; the onloadend
\* callback of each FileReader and the settling of api.uploadImages are steps
\* of their own.
validTypes == {"image/jpeg", "image/jpg", "image/png", "image/tiff"}
maxSize == 50 * 1024 * 1024

\* The files the user can pick: one of each accepted type, one at the size
\* limit, and three that fail a check.
PickableFiles ==
  { [name |-> "a.jpg",  type |-> "image/jpeg",      size |-> 1],
    [name |-> "b.png",  type |-> "image/png",       size |-> maxSize],
    [name |-> "c.tiff", type |-> "image/tiff",      size |-> 1],
    [name |-> "d.jpg",  type |-> "image/jpg",       size |-> 1],
    [name |-> "e.pdf",  type |-> "application/pdf", size |-> 1],
    [name |-> "f.gif",  type |-> "image/gif",       size |-> maxSize + 1],
    [name |-> "g.png",  type |-> "image/png",       size |-> maxSize + 1] }

\* e.target.files: up to MaxSelect files in the order picked.
Selections == UNION { [1 .. n -> PickableFiles] : n \in 0 .. MaxSelect }

\* The error shown: the file named (if any) and the text; '' is NoError.
NoError == [name |-> "", text |-> ""]
ErrorOf(name, text) == [name |-> name, text |-> text]

\* error.message of a rejected api.uploadImages ("": none).
UploadErrors == {"Failed to start ML processing", ""}

\* Mutant of Rejection: the size limit is not checked.
RejectionTypeOnly(file) ==
  IF file.type \notin validTypes
  THEN ErrorOf(file.name, ": Invalid file type. Only JPG, PNG, or TIFF allowed.")
  ELSE NoError

\* The two checks of the loop for one file: the error it sets, or NoError
\* when the file passes.
Rejection(file) ==
  IF file.type \notin validTypes
  THEN ErrorOf(file.name, ": Invalid file type. Only JPG, PNG, or TIFF allowed.")
  ELSE IF file.size > maxSize
  THEN ErrorOf(file.name, ": File size must be less than 50MB")
  ELSE NoError

\* validFiles after the loop.
ValidFiles(selectedFiles) ==
  SelectSeq(selectedFiles, LAMBDA file : Rejection(file) = NoError)

\* The error after the loop: each rejected file sets it in turn.
RECURSIVE LoopError(_, _)
LoopError(selectedFiles, err) ==
  IF selectedFiles = <<>> THEN err
  ELSE LoopError(Tail(selectedFiles),
                 IF Rejection(Head(selectedFiles)) # NoError
                 THEN Rejection(Head(selectedFiles)) ELSE err)

\* reader.result of readAsDataURL(file), and the preview pushed for it.
DataUrl(file) == <<"data:", file.type, file.name>>
PreviewOf(file) == [name |-> file.name, url |-> DataUrl(file)]

\* The state after handleFileChange for a selection: the staged files, the
\* error shown, and the readers started (one per valid file, sharing the
\* selection's validFiles and newPreviews).
FileChanged(selectedFiles) ==
  LET validFiles == ValidFiles(selectedFiles)
  IN  IF selectedFiles = <<>>
      THEN [files |-> files, error |-> error, readers |-> readers]
      ELSE [files |-> IF Len(validFiles) > 0 THEN files \o validFiles
                      ELSE files,
            error |-> IF Len(validFiles) > 0 THEN NoError
                      ELSE LoopError(selectedFiles, error),
            readers |-> IF Len(validFiles) > 0
                        THEN Append(readers,
                               [validFiles |-> validFiles,
                                newPreviews |-> <<>>,
                                reading |-> 1 .. Len(validFiles)])
                        ELSE readers]

\* The number of previews the reader groups will add.
RECURSIVE Decoding(_)
Decoding(groups) ==
  IF groups = <<>> THEN 0
  ELSE Len(Head(groups).validFiles) + Decoding(Tail(groups))

\* onChange of the file input (disabled while uploading).  The staged files
\* and the previews shown or being decoded are capped at MaxStaged, the
\* reader groups at MaxPending.
handleFileChange(selectedFiles) ==
  LET out == FileChanged(selectedFiles) IN
  /\ ~uploading
  /\ Len(out.files) <= MaxStaged
  /\ Len(previews) + Decoding(out.readers) <= MaxStaged
  /\ Len(out.readers) <= MaxPending
  /\ files' = out.files
  /\ error' = out.error
  /\ readers' = out.readers
  /\ UNCHANGED <<previews, uploading, uploadCall, server>>

\* The sequence without its element at position index.
Without(seq, index) ==
  SelectSeq([i \in 1 .. Len(seq) |-> <<i, seq[i]>>], LAMBDA e : e[1] # index)

\* newPreviews after the onloadend of validFiles[i] of reader group b.
Loaded(b, i) ==
  Append(readers[b].newPreviews, PreviewOf(readers[b].validFiles[i]))

\* reader.onloadend for validFiles[i] of reader group b: the preview is pushed
\* to newPreviews, and the last callback of the group appends newPreviews to
\* previews.
ReaderLoadEnd(b, i) ==
  /\ b \in 1 .. Len(readers)
  /\ i \in readers[b].reading
  /\ IF Len(Loaded(b, i)) = Len(readers[b].validFiles)
     THEN /\ previews' = previews \o Loaded(b, i)
          /\ readers' = [e \in 1 .. (Len(readers) - 1) |->
                           IF e < b THEN readers[e] ELSE readers[e + 1]]
     ELSE /\ previews' = previews
          /\ readers' = [readers EXCEPT ![b].newPreviews = Loaded(b, i),
                                        ![b].reading = @ \ {i}]
  /\ UNCHANGED <<files, error, uploading, uploadCall, server>>

\* prev.filter((_, i) => i !== index)
FilterOut(seq, index) ==
  [k \in 1 .. Len(Without(seq, index)) |-> Without(seq, index)[k][2]]

\* The remove button of the preview at position index.
removeFile(index) ==
  /\ index \in 1 .. Len(previews)
  /\ files' = FilterOut(files, index)
  /\ previews' = FilterOut(previews, index)
  /\ UNCHANGED <<error, uploading, uploadCall, readers, server>>

\* The clear-all button, rendered while files are staged.
ClearAll ==
  /\ Len(files) > 0
  /\ files' = <<>>
  /\ previews' = <<>>
  /\ UNCHANGED <<error, uploading, uploadCall, readers, server>>

\* The upload button (disabled without files, while uploading, and without
\* patient data), up to the await of api.uploadImages.
handleUpload(patientData) ==
  /\ ~(Len(files) = 0 \/ uploading \/ ~patientData)
  /\ IF Len(files) = 0 \/ ~patientData
     THEN /\ error' = ErrorOf("",
                "Please select at least one image and enter patient data")
          /\ UNCHANGED <<uploading, uploadCall>>
     ELSE /\ error' = NoError
          /\ uploading' = TRUE
          /\ uploadCall' = TRUE
  /\ UNCHANGED <<files, previews, readers, server>>

\* api.uploadImages resolves (onUploadComplete gets the result) or rejects
\* (the catch block shows the message and resets the flag).
UploadSettled ==
  /\ uploadCall
  /\ uploadCall' = FALSE
  /\ \/ UNCHANGED <<error, uploading>>
     \/ \E message \in UploadErrors :
          /\ error' = ErrorOf("", IF Falsy(message)
                                  THEN "Upload failed. Please try again."
                                  ELSE message)
          /\ uploading' = FALSE
  /\ UNCHANGED <<files, previews, readers, server>>

\* ================================================================== claims
\* Vocabulary of the claims, stated apart from the handlers.
ValidCredentials == {"tokA", "tokB"}
OwnerOf(cred) == IF cred = "tokA" THEN "labA" ELSE "labB"
PatientKeys == {"P1", "P2"}
Terminal == {"COMPLETED", "FAILED"}
JobDocs(coll, jobId) == {i \in 1 .. Len(coll) : coll[i].jobId = jobId}
PatientDocs(coll, patientId) ==
  {i \in 1 .. Len(coll) : coll[i].patientId = patientId}
\* The images a request hands in: its 'images' parts, or its one legacy
\* 'image' part when it has no 'images' part.
AcceptedImages(req) ==
  IF req.images > 0 THEN req.images ELSE IF req.image THEN 1 ELSE 0
PassesValidation(req) ==
  /\ req.cred \in ValidCredentials
  /\ AcceptedImages(req) > 0
  /\ req.patientId \in PatientKeys

\* C1: an upload that passes validation upserts exactly one Patient keyed by
\* the submitted patientId and creates exactly one Job, PENDING, progress 0,
\* totalImages the number of images accepted from the request; the 200 answer
\* carries that job's id, status PENDING and the same totalImages.
C1_UploadCreatesJobAndPatient ==
  /\ \A req \in UploadRequests :
       (PassesValidation(req) /\ randomUUID \in JobIds) =>
         LET out == PostStart(req) IN
         /\ out.body.http = 0
         /\ out.jobs = jobs
         /\ Cardinality(PatientDocs(out.patients, req.patientId)) = 1
         /\ Len(out.patients) =
              IF PatientDocs(patients, req.patientId) = {}
              THEN Len(patients) + 1 ELSE Len(patients)
         /\ \A i \in 1 .. Len(patients) :
              patients[i].patientId # req.patientId =>
                out.patients[i] = patients[i]
         /\ out.uploads[randomUUID].pc = "create"
         /\ out.uploads[randomUUID].total = AcceptedImages(req)
         /\ \A k \in JobIds \ {randomUUID} : out.uploads[k] = uploads[k]
  /\ \A k \in JobIds :
       /\ uploads[k].pc \in {"idle", "create"} => JobDocs(jobs, k) = {}
       /\ uploads[k].pc \notin {"idle", "create"} =>
            /\ Cardinality(JobDocs(jobs, k)) = 1
            /\ \A i \in JobDocs(jobs, k) :
                 /\ jobs[i].totalImages = uploads[k].total
                 /\ jobs[i].patientId = uploads[k].patientId
                 /\ jobs[i].labId = uploads[k].user
                 /\ uploads[k].pc = "forward" =>
                      /\ jobs[i].status = "PENDING"
                      /\ jobs[i].progress = 0
                      /\ jobs[i].result = NoResult
                 /\ uploads[k].pc \in {"await", "ok"} =>
                      /\ UploadOk(k).http = 200
                      /\ UploadOk(k).jobId = k
                      /\ UploadOk(k).status = "PENDING"
                      /\ UploadOk(k).totalImages = jobs[i].totalImages

\* C1 witness: an upload answered 200 and its job and patient are stored.
C1_Witness ==
  \E k \in JobIds :
    /\ uploads[k].pc = "ok"
    /\ JobDocs(jobs, k) # {}
    /\ PatientDocs(patients, uploads[k].patientId) # {}

\* C2 as claimed: when the forward call fails the job is FAILED, the caller
\* gets a 500, and the stored result.error equals the message of that answer.
C2_StoredErrorEqualsMessage ==
  \A k \in JobIds :
    uploads[k].pc = "failed" =>
      /\ UploadFailed(k).http = 500
      /\ \A i \in JobDocs(jobs, k) :
           /\ jobs[i].status = "FAILED"
           /\ jobs[i].result.error = UploadFailed(k).message

\* C2 amended: when the forward call fails the job is FAILED, the caller gets
\* a 500 whose message is the fixed text 'Failed to start ML processing', and
\* the stored result.error equals the error field of that answer.
C2_StoredErrorEqualsErrorField ==
  \A k \in JobIds :
    /\ uploads[k].pc = "catch" =>
         \A i \in JobDocs(JobMarkFailed(jobs, k, uploads[k].err), k) :
           LET job == JobMarkFailed(jobs, k, uploads[k].err)[i] IN
           /\ job.status = "FAILED"
           /\ job.result.error = UploadFailed(k).error
    /\ uploads[k].pc = "failed" =>
         /\ UploadFailed(k).http = 500
         /\ UploadFailed(k).message = "Failed to start ML processing"
         /\ UploadFailed(k).error # Null
         /\ JobDocs(jobs, k) # {}
         /\ \A i \in JobDocs(jobs, k) :
              /\ jobs[i].status = "FAILED"
              /\ jobs[i].result.kind = "error"
              /\ jobs[i].result.error = UploadFailed(k).error

\* C2 witness: an upload answered 500 after the service answered non-2xx
\* with a detail, and the job holds that detail.
C2_Witness ==
  \E k \in JobIds :
    /\ uploads[k].pc = "failed"
    /\ uploads[k].err = "Model not loaded"
    /\ \E i \in JobDocs(jobs, k) : jobs[i].result.error = "Model not loaded"

\* C3: once a job is COMPLETED or FAILED its status never changes again.
C3_TerminalAbsorbing ==
  [][\A i \in 1 .. Len(jobs) :
       jobs[i].status \in Terminal => jobs'[i].status = jobs[i].status]_vars

\* C4: a status request for a job the caller does not own is answered 404,
\* the same answer as for a job id that does not exist, and the answer holds
\* no status, progress, report or error message of the job.
C4_NotOwnedIsNotFound ==
  \A cred \in ValidCredentials, jobId \in AskedIds :
    (\A i \in JobDocs(jobs, jobId) : jobs[i].labId # OwnerOf(cred)) =>
      LET out == StatusStart(cred, jobId) IN
      /\ out.wait = {}
      /\ out.body = StatusStart(cred, 0).body
      /\ out.body.http = 404
      /\ out.body.message = "Job not found or access denied"
      /\ out.body.jobId = 0
      /\ out.body.status = Null
      /\ out.body.progress = 0
      /\ out.body.report = {}
      /\ out.body.error = Null

\* C4 witness: a completed job of one user, asked for by the other user.
C4_Witness ==
  \E i \in 1 .. Len(jobs), cred \in ValidCredentials :
    /\ jobs[i].labId # OwnerOf(cred)
    /\ jobs[i].status = "COMPLETED"
    /\ StatusStart(cred, jobs[i].jobId).body.http = 404

\* C5: a report request by the owner is answered 400 while the job is not
\* COMPLETED; once it is COMPLETED the handler fetches the PDF of that job id
\* and, when the service answers, returns those bytes as the attachment
\* cytomind_report_{jobId}.pdf.
C5_ReportReadyOnlyWhenCompleted ==
  /\ \A cred \in ValidCredentials, i \in 1 .. Len(jobs) :
       jobs[i].labId = OwnerOf(cred) =>
         LET out == ReportStart(cred, jobs[i].jobId) IN
         IF jobs[i].status # "COMPLETED"
         THEN /\ out.wait = {}
              /\ out.body.http = 400
              /\ out.body.message = "Report not ready yet"
              /\ out.body.body = <<>>
         ELSE /\ out.wait = {jobs[i].jobId}
              /\ out.body.http = 0
  /\ \A jobId \in reportReq :
       /\ ReportFetched(jobId, "ok").http = 200
       /\ ReportFetched(jobId, "ok").body = PdfOf(jobId)
       /\ ReportFetched(jobId, "ok").disposition =
            <<"attachment; filename=cytomind_report_", jobId, ".pdf">>

\* C5 witness: the report of a completed job is being fetched while another
\* job of the same owner is not completed.
C5_Witness ==
  \E i, j \in 1 .. Len(jobs) :
    /\ jobs[i].jobId \in reportReq
    /\ jobs[i].status = "COMPLETED"
    /\ jobs[j].labId = jobs[i].labId
    /\ jobs[j].status = "PROCESSING"

\* C6: an authenticated upload with no image or with an absent or empty
\* patientId is answered 400, changes neither store, starts no handler and
\* makes no call to the inference service.
C6_InvalidUploadRejected ==
  \A req \in UploadRequests :
    (/\ req.cred \in ValidCredentials
     /\ \/ (req.images = 0 /\ ~req.image)
        \/ req.patientId \in {Null, ""}) =>
      LET out == PostStart(req) IN
      /\ out.body.http = 400
      /\ out.body.message # Null
      /\ out.ops = <<>>
      /\ out.jobs = jobs
      /\ out.patients = patients
      /\ out.uploads = uploads

\* C6 witness: both stores hold documents and an upload handler is running
\* when a request without images is answered 400.
C6_Witness ==
  /\ jobs # <<>>
  /\ patients # <<>>
  /\ \E k \in JobIds : uploads[k].pc = "forward"
  /\ PostStart([cred |-> "tokB", images |-> 0, image |-> FALSE,
                patientId |-> "P1",
                profile |-> [name |-> "Jane", age |-> "34"]]).body.http = 400

\* C7: a job in PENDING or PROCESSING has no result, and a result once
\* written is never overwritten.
C7_ResultWrittenOnce ==
  [][\A i \in 1 .. Len(jobs) :
       /\ jobs[i].status \in {"PENDING", "PROCESSING"} =>
            jobs[i].result = NoResult
       /\ jobs[i].result # NoResult => jobs'[i].result = jobs[i].result]_vars

\* C8: the Patient collection holds at most one document per patientId, and
\* every write of it is the upsert of one upload: the document of that
\* patientId gets the name, age and owner of that one upload, and no other
\* document changes.
C8_PatientLastWriteWins ==
  [][/\ \A pid \in PatientKeys :
          Cardinality(PatientDocs(patients', pid)) <= 1
     /\ \/ patients' = patients
        \/ \E pid \in PatientKeys, profile \in Profiles, user \in Users :
             /\ \E k \in JobIds :
                  /\ uploads[k].pc = "idle"
                  /\ uploads'[k].pc = "create"
                  /\ uploads'[k].patientId = pid
                  /\ uploads'[k].name = profile.name
                  /\ uploads'[k].age = profile.age
                  /\ uploads'[k].user = user
             /\ \A i \in PatientDocs(patients', pid) :
                  patients'[i] = [patientId |-> pid, name |-> profile.name,
                                  age |-> profile.age, labId |-> user]
             /\ PatientDocs(patients', pid) # {}
             /\ \A i \in 1 .. Len(patients) :
                  patients[i].patientId # pid => patients'[i] = patients[i]
             /\ Len(patients') <= Len(patients) + 1]_vars

\* C8 witness: two uploads for the same patientId with different name and
\* owner are in flight together, and the collection holds one document.
C8_Witness ==
  \E k1, k2 \in JobIds :
    /\ uploads[k1].pc = "create"
    /\ uploads[k2].pc = "create"
    /\ uploads[k1].patientId = uploads[k2].patientId
    /\ uploads[k1].name # uploads[k2].name
    /\ uploads[k1].user # uploads[k2].user
    /\ Len(patients) = 1

\* C9: each of the three routes answers 401 with a message when the bearer
\* credential is absent or invalid, before any operation on a store or call
\* to the inference service.
C9_UnauthorizedFirst ==
  \A cred \in Credentials \ ValidCredentials :
    /\ \A req \in UploadRequests :
         req.cred = cred =>
           LET out == PostStart(req) IN
           /\ out.body.http = 401
           /\ out.body.message # Null
           /\ out.ops = <<>>
           /\ out.jobs = jobs
           /\ out.patients = patients
           /\ out.uploads = uploads
    /\ \A jobId \in AskedIds :
         /\ StatusStart(cred, jobId).body.http = 401
         /\ StatusStart(cred, jobId).body.message # Null
         /\ StatusStart(cred, jobId).ops = <<>>
         /\ StatusStart(cred, jobId).wait = {}
         /\ ReportStart(cred, jobId).body.http = 401
         /\ ReportStart(cred, jobId).body.message # Null
         /\ ReportStart(cred, jobId).ops = <<>>
         /\ ReportStart(cred, jobId).wait = {}

\* C9 witness: a completed job is asked for without a credential.
C9_Witness ==
  \E i \in 1 .. Len(jobs) :
    /\ jobs[i].status = "COMPLETED"
    /\ StatusStart(Null, jobs[i].jobId).body.http = 401
    /\ ReportStart(Null, jobs[i].jobId).body.http = 401

\* C10: a status answer for an owned job holds jobId, status and progress of
\* the job read; it holds a report only when that status is COMPLETED, and
\* the job's recorded error message when that status is FAILED.
C10_StatusBodyShape ==
  /\ \A cred \in ValidCredentials, i \in 1 .. Len(jobs) :
       jobs[i].labId = OwnerOf(cred) =>
         LET out == StatusStart(cred, jobs[i].jobId) IN
         IF out.wait = {}
         THEN /\ out.body.http = 200
              /\ out.body.jobId = jobs[i].jobId
              /\ out.body.status = jobs[i].status
              /\ out.body.progress = jobs[i].progress
              /\ out.body.report = {}
              /\ jobs[i].status = "FAILED" =>
                   /\ out.body.message = jobs[i].result.error
                   /\ out.body.message # Null
         ELSE /\ out.wait = {jobs[i]}
              /\ jobs[i].status = "COMPLETED"
  /\ \A job \in statusReq :
       /\ StatusFinish(job).http = 200
       /\ StatusFinish(job).jobId = job.jobId
       /\ StatusFinish(job).status = "COMPLETED"
       /\ StatusFinish(job).status = job.status
       /\ StatusFinish(job).progress = job.progress
       /\ StatusFinish(job).report # {}
       /\ \A r \in StatusFinish(job).report :
            r.classification = job.result.classification

\* C10 witness: the report of a completed job is being put together while
\* another job is FAILED.
C10_Witness ==
  /\ statusReq # {}
  /\ \E i \in 1 .. Len(jobs) : jobs[i].status = "FAILED"

\* What a status request by cred for jobId is answered when no store is
\* written while it runs: the answer of its first step, or the answer with
\* the report for the job that step read.
StatusAnswer(cred, jobId) ==
  LET out == StatusStart(cred, jobId)
  IN  IF out.wait = {} THEN out.body
      ELSE StatusFinish(CHOOSE job \in out.wait : TRUE)

\* C11: a step of a status request, whatever it answers, leaves the Job and
\* Patient collections as they were; and as long as neither collection is
\* written, a status request by the same caller for the same job id gets the
\* same answer, also the same as a request of that caller still running whose
\* job read is the one stored.
C11_StatusReadOnlyIdempotent ==
  /\ [][((\E cred \in Credentials, jobId \in AskedIds : StatusGET(cred, jobId))
           \/ StatusPatient) => UNCHANGED <<jobs, patients>>]_vars
  /\ [][(UNCHANGED <<jobs, patients>>
            /\ <<uploads, mlJobs, statusReq, reportReq>>' #
                 <<uploads, mlJobs, statusReq, reportReq>>) =>
          \A cred \in Credentials, jobId \in AskedIds :
            StatusAnswer(cred, jobId)' = StatusAnswer(cred, jobId)]_vars
  /\ [](\A job \in statusReq :
          (\E i \in 1 .. Len(jobs) : jobs[i] = job) =>
            \A cred \in ValidCredentials :
              OwnerOf(cred) = job.labId =>
                StatusAnswer(cred, job.jobId) = StatusFinish(job))

\* C11 witness: a status request for a completed job is running, the job it
\* read is still the one stored, and a second request of its owner for that
\* job id is answered 200 with a report.
C11_Witness ==
  \E job \in statusReq, cred \in ValidCredentials :
    /\ OwnerOf(cred) = job.labId
    /\ \E i \in 1 .. Len(jobs) : jobs[i] = job
    /\ StatusAnswer(cred, job.jobId).http = 200
    /\ StatusAnswer(cred, job.jobId).report # {}
    /\ Len(jobs) = 2

\* C12: when the fetch of the PDF for an owned, COMPLETED job fails (the
\* service is unreachable or answers non-2xx) the report route answers 500
\* with a message and no PDF; that step writes neither store, so the job it
\* asked for is stored as before, and while the job is COMPLETED a new report
\* request of its owner passes the checks again and is answered with the PDF
\* when the service answers.
C12_ReportFailureNotPersisted ==
  /\ [](\A jobId \in reportReq, outcome \in PdfOutcomes \ {"ok"} :
          /\ ReportFetched(jobId, outcome).http = 500
          /\ ReportFetched(jobId, outcome).message # Null
          /\ ReportFetched(jobId, outcome).body = <<>>)
  /\ [][(\E outcome \in PdfOutcomes \ {"ok"} : ReportFetch(outcome)) =>
          /\ UNCHANGED <<jobs, patients>>
          /\ \A jobId \in reportReq, i \in 1 .. Len(jobs) :
               (jobs[i].jobId = jobId /\ jobs[i].status = "COMPLETED") =>
                 /\ jobs'[i].status = "COMPLETED"
                 /\ jobs'[i].result = jobs[i].result
                 /\ \A cred \in ValidCredentials :
                      OwnerOf(cred) = jobs[i].labId =>
                        /\ ReportStart(cred, jobId)'.wait = {jobId}
                        /\ ReportFetched(jobId, "ok").http = 200
                        /\ ReportFetched(jobId, "ok").body = PdfOf(jobId)]_vars

\* C12 witness: the PDF of a completed job with its payload is being fetched
\* (the fetch may fail) while the job is stored as COMPLETED.
C12_Witness ==
  \E jobId \in reportReq, i \in 1 .. Len(jobs) :
    /\ jobs[i].jobId = jobId
    /\ jobs[i].status = "COMPLETED"
    /\ jobs[i].result = Payload
    /\ ReportFetched(jobId, "unreachable").http = 500
    /\ ENABLED ReportFetch("unreachable")

\* C14: no two jobs share a job id, and the forward-failure step of an upload
\* (its catch block) changes only the job created by that upload: every other
\* job, also one for the same patientId, keeps its status, progress and
\* result, and no job is added or removed.
C14_FailureTouchesOwnJobOnly ==
  /\ [](\A k \in JobIds : Cardinality(JobDocs(jobs, k)) <= 1)
  /\ [][\A k \in JobIds :
          UploadCatch(k) =>
            /\ Len(jobs') = Len(jobs)
            /\ \A i \in 1 .. Len(jobs) :
                 IF jobs[i].jobId = k
                 THEN /\ jobs[i].labId = uploads[k].user
                      /\ jobs[i].patientId = uploads[k].patientId
                      /\ jobs'[i].jobId = k
                 ELSE jobs'[i] = jobs[i]]_vars

\* C14 witness: two uploads for the same patientId each created a job; one
\* upload went through its failure path and the other job is COMPLETED.
C14_Witness ==
  \E k1, k2 \in JobIds :
    /\ k1 # k2
    /\ uploads[k1].pc = "failed"
    /\ uploads[k1].patientId = uploads[k2].patientId
    /\ \E i \in JobDocs(jobs, k1) : jobs[i].status = "FAILED"
    /\ \E j \in JobDocs(jobs, k2) : jobs[j].status = "COMPLETED"

\* C16: the first step of an upload by one owner (credential check,
\* validation, Patient upsert) leaves unchanged what a status request of any
\* other owner is answered for that owner's completed job, the patientName
\* and age of the report included.
C16_ReportViewOwnerIsolated ==
  [][\A k \in JobIds :
       (uploads[k].pc = "idle" /\ uploads'[k].pc = "create") =>
         \A cred \in ValidCredentials, i \in 1 .. Len(jobs) :
           (/\ OwnerOf(cred) # uploads'[k].user
            /\ jobs[i].labId = OwnerOf(cred)
            /\ jobs[i].status = "COMPLETED") =>
             StatusAnswer(cred, jobs[i].jobId)' =
               StatusAnswer(cred, jobs[i].jobId)]_vars

\* C18: the report route goes on to the fetch of the PDF only for a valid
\* credential whose owner has a COMPLETED job of the id asked, after one
\* lookup of the job; a request answered 401, 404 or 400 makes no fetch; the
\* credential check comes first (401 whatever the job id) and the ownership
\* lookup before the COMPLETED check (a job of another owner is answered 404
\* whatever its status).
C18_ReportChecksInOrder ==
  /\ \A cred \in Credentials, jobId \in AskedIds :
       LET out == ReportStart(cred, jobId) IN
       /\ out.body.http \in {0, 400, 401, 404}
       /\ out.body.http # 0 <=> out.wait = {}
       /\ out.wait # {} =>
            /\ out.wait = {jobId}
            /\ cred \in ValidCredentials
            /\ out.ops = <<"Job.findOne">>
            /\ \E i \in JobDocs(jobs, jobId) :
                 /\ jobs[i].labId = OwnerOf(cred)
                 /\ jobs[i].status = "COMPLETED"
       /\ cred \notin ValidCredentials =>
            out.body.http = 401 /\ out.ops = <<>>
       /\ (/\ cred \in ValidCredentials
           /\ \A i \in JobDocs(jobs, jobId) : jobs[i].labId # OwnerOf(cred)) =>
            out.body.http = 404
       /\ out.body.http = 400 =>
            \E i \in JobDocs(jobs, jobId) :
              /\ jobs[i].labId = OwnerOf(cred)
              /\ jobs[i].status # "COMPLETED"
  /\ \A jobId \in reportReq : JobDocs(jobs, jobId) # {}

\* C18 witness: the PDF of a completed job is being fetched while a job of
\* the other owner is not COMPLETED, and the first owner's request for that
\* job is answered 404.
C18_Witness ==
  \E i, j \in 1 .. Len(jobs), cred \in ValidCredentials :
    /\ jobs[i].jobId \in reportReq
    /\ jobs[i].labId = OwnerOf(cred)
    /\ jobs[j].labId # OwnerOf(cred)
    /\ jobs[j].status \in {"PENDING", "PROCESSING"}
    /\ ReportStart(cred, jobs[j].jobId).body.http = 404

\* The two predicates of the upload validator, stated apart from the handler.
AllowedMime == {"image/jpeg", "image/jpg", "image/png", "image/tiff"}
Acceptable(file) ==
  file.type \in AllowedMime /\ file.size <= 50 * 1024 * 1024

\* C13: after any selections, removals and clear-alls every staged file has
\* a MIME type among image/jpeg, image/jpg, image/png, image/tiff and a size
\* of at most 50 MiB; handling a selection adds its files that pass both
\* predicates, in order, and none that fails one.
C13_StagedFilesAcceptable ==
  /\ \A i \in 1 .. Len(files) : Acceptable(files[i])
  /\ \A b \in 1 .. Len(readers) :
       \A i \in 1 .. Len(readers[b].validFiles) :
         Acceptable(readers[b].validFiles[i])
  /\ \A selectedFiles \in Selections :
       FileChanged(selectedFiles).files =
         files \o SelectSeq(selectedFiles, Acceptable)

\* C13 witness: two files are staged, one of them exactly at the size limit,
\* and a later selection holding only an oversized file was turned down.
C13_Witness ==
  /\ Len(files) = 2
  /\ \E i \in 1 .. Len(files) : files[i].size = 50 * 1024 * 1024
  /\ error.name = "g.png"

\* The files of a selection that fail a predicate, in the order picked.
Rejected(selectedFiles) ==
  SelectSeq(selectedFiles, LAMBDA file : ~Acceptable(file))

\* C15: after a selection with at least one rejected file is handled, the
\* error shown names the last rejected file of the selection and gives its
\* rejection reason, whether or not the selection also holds accepted files.
C15_LastRejectionShown ==
  [][\A selectedFiles \in Selections :
       (handleFileChange(selectedFiles) /\ Rejected(selectedFiles) # <<>>) =>
         LET last == Rejected(selectedFiles)[Len(Rejected(selectedFiles))]
         IN  /\ error'.name = last.name
             /\ error'.text # ""]_vars

\* C17: whenever no preview is being decoded, previews and files have the
\* same length and previews[i] is the preview of files[i], by name, at every
\* position.
C17_PreviewsAlignedWithFiles ==
  readers = <<>> =>
    /\ Len(previews) = Len(files)
    /\ \A i \in 1 .. Len(previews) : previews[i].name = files[i].name

\* ------------------------------------------------------------ specification
Init ==
  /\ jobs = <<>>
  /\ patients = <<>>
  /\ uploads = [k \in JobIds |-> IdleUpload]
  /\ mlJobs = {}
  /\ statusReq = {}
  /\ reportReq = {}
  /\ files = <<>>
  /\ previews = <<>>
  /\ error = NoError
  /\ uploading = FALSE
  /\ uploadCall = FALSE
  /\ readers = <<>>

Next ==
  \/ \E req \in SentRequests : UploadPOST(req)
  \/ \E k \in JobIds : UploadCreateJob(k)
  \/ \E k \in JobIds : UploadForward(k)
  \/ \E k \in JobIds : UploadResponse(k)
  \/ \E k \in JobIds : UploadCatch(k)
  \/ \E k \in JobIds : MLStart(k)
  \/ \E k \in JobIds : MLComplete(k)
  \/ \E k \in JobIds : MLFail(k)
  \/ \E cred \in Credentials, jobId \in AskedIds : StatusGET(cred, jobId)
  \/ StatusPatient
  \/ \E cred \in Credentials, jobId \in AskedIds : ReportGET(cred, jobId)
  \/ \E outcome \in PdfOutcomes : ReportFetch(outcome)

Spec == Init /\ [][Next]_vars

\* The upload component on its own.
NextUI ==
  \/ \E selectedFiles \in Selections : handleFileChange(selectedFiles)
  \/ \E b \in 1 .. MaxPending, i \in 1 .. MaxSelect : ReaderLoadEnd(b, i)
  \/ \E index \in 1 .. MaxStaged : removeFile(index)
  \/ ClearAll
  \/ \E patientData \in BOOLEAN : handleUpload(patientData)
  \/ UploadSettled

SpecUI == Init /\ [][NextUI]_vars
====
